---- MODULE Spec2Model ----
(***************************************************************************)
(* Model of the expense screen (ExpenseScreen component): the SQLite table *)
(* "expenses", the component's React state, the asynchronous statements in *)
(* flight and the date helpers of the screen.                              *)
(*                                                                         *)
(* Text is a sequence of one-character strings, so that trim, parseFloat,  *)
(* toString, the ISO date format and SQLite's text comparison are computed *)
(* character by character.  Numbers are fixed point, in tenths.            *)
(***************************************************************************)
EXTENDS Integers, Sequences, FiniteSets, TLC

\* ------------------------------------------------------------------ text

DigitChars == <<"0", "1", "2", "3", "4", "5", "6", "7", "8", "9">>

IsDigit(c) == \E i \in 1..10 : DigitChars[i] = c

DigitVal(c) == (CHOOSE i \in 1..10 : DigitChars[i] = c) - 1

\* Code points of the characters the model uses (binary text comparison).
CharCode(c) ==
    CASE c = "0" -> 48 [] c = "1" -> 49 [] c = "2" -> 50 [] c = "3" -> 51
      [] c = "4" -> 52 [] c = "5" -> 53 [] c = "6" -> 54 [] c = "7" -> 55
      [] c = "8" -> 56 [] c = "9" -> 57 [] c = "-" -> 45 [] c = " " -> 32
      [] c = "." -> 46 [] c = "B" -> 66 [] c = "F" -> 70 [] c = "I" -> 73
      [] OTHER -> 97

IsSpace(c) == c = " "

RECURSIVE TrimStart(_)
TrimStart(s) ==
    IF s = <<>> THEN <<>>
    ELSE IF IsSpace(Head(s)) THEN TrimStart(Tail(s))
    ELSE s

RECURSIVE TrimEnd(_)
TrimEnd(s) ==
    IF s = <<>> THEN <<>>
    ELSE IF IsSpace(s[Len(s)]) THEN TrimEnd(SubSeq(s, 1, Len(s) - 1))
    ELSE s

\* String.prototype.trim
Trim(s) == TrimEnd(TrimStart(s))

\* SQLite's BINARY collation on TEXT, a < b: the first character that
\* differs decides, and a proper prefix is smaller.
RECURSIVE TextLessFrom(_, _, _)
TextLessFrom(a, b, i) ==
    IF i > Len(b) THEN FALSE
    ELSE IF i > Len(a) THEN TRUE
    ELSE IF a[i] = b[i] THEN TextLessFrom(a, b, i + 1)
    ELSE CharCode(a[i]) < CharCode(b[i])

TextLess(a, b) == TextLessFrom(a, b, 1)

TextLeq(a, b) == a = b \/ TextLess(a, b)

\* --------------------------------------------------------------- numbers

\* A JavaScript number: NaN, +-Infinity, or a finite value v in tenths.
NaN == [t |-> "nan", v |-> 0]

Infinity == [t |-> "inf", v |-> 1]

Num(v) == [t |-> "num", v |-> v]

isNaN(x) == x.t = "nan"

\* x <= 0 in JavaScript (false for NaN)
LeqZero(x) == x.t # "nan" /\ x.v <= 0

InfinityText == <<"I", "n", "f", "i", "n", "i", "t", "y">>

HasPrefix(s, p) == Len(s) >= Len(p) /\ SubSeq(s, 1, Len(p)) = p

\* Length of the longest prefix of s made of digits.
RECURSIVE DigitRun(_)
DigitRun(s) ==
    IF s # <<>> /\ IsDigit(Head(s)) THEN 1 + DigitRun(Tail(s)) ELSE 0

\* Value of a sequence of digits.
RECURSIVE DigitsValue(_)
DigitsValue(s) ==
    IF s = <<>> THEN 0
    ELSE 10 * DigitsValue(SubSeq(s, 1, Len(s) - 1)) + DigitVal(s[Len(s)])

\* The unsigned part of parseFloat: the longest prefix that is a decimal
\* literal ("Infinity", digits, digits "." digits, "." digits); the value is
\* kept in tenths (the inputs of the model have at most one decimal).
ParseUnsigned(s) ==
    LET n == DigitRun(s)
        rest == SubSeq(s, n + 1, Len(s))
        f == IF rest # <<>> /\ Head(rest) = "." THEN DigitRun(Tail(rest)) ELSE 0
        tenth == IF f > 0 THEN DigitVal(rest[2]) ELSE 0
    IN  IF HasPrefix(s, InfinityText) THEN Infinity
        ELSE IF n = 0 /\ f = 0 THEN NaN
        ELSE Num(10 * DigitsValue(SubSeq(s, 1, n)) + tenth)

Negate(x) == [t |-> x.t, v |-> 0 - x.v]

\* parseFloat(string): leading white space is skipped, an optional sign, then
\* the longest numeric prefix; whatever follows the prefix is ignored.
parseFloat(str) ==
    LET s == TrimStart(str)
    IN  IF s = <<>> THEN NaN
        ELSE IF Head(s) = "-" THEN Negate(ParseUnsigned(Tail(s)))
        ELSE IF Head(s) = "+" THEN ParseUnsigned(Tail(s))
        ELSE ParseUnsigned(s)

\* Decimal digits of a natural number.
RECURSIVE NatText(_)
NatText(n) ==
    IF n < 10 THEN <<DigitChars[n + 1]>>
    ELSE NatText(n \div 10) \o <<DigitChars[(n % 10) + 1]>>

\* Number.prototype.toString of a stored amount (amounts are positive).
NumberToString(x) ==
    IF x.t = "inf" THEN InfinityText
    ELSE IF x.t = "nan" THEN <<"N", "a", "N">>
    ELSE IF x.v % 10 = 0 THEN NatText(x.v \div 10)
    ELSE NatText(x.v \div 10) \o <<".">> \o <<DigitChars[(x.v % 10) + 1]>>

\* ----------------------------------------------------------------- dates

\* Instants are hours since 2024-01-01T00:00Z, a Monday.
EpochYear == 2024

HoursPerDay == 24

IsLeap(y) == (y % 4 = 0 /\ y % 100 # 0) \/ y % 400 = 0

DaysInMonth(y, m) ==
    IF m = 2 THEN (IF IsLeap(y) THEN 29 ELSE 28)
    ELSE IF m \in {4, 6, 9, 11} THEN 30
    ELSE 31

\* Calendar date of day number d (day 0 is January 1st of EpochYear).
RECURSIVE CivilFrom(_, _, _)
CivilFrom(d, y, m) ==
    IF d < DaysInMonth(y, m) THEN [y |-> y, m |-> m, d |-> d + 1]
    ELSE IF m = 12 THEN CivilFrom(d - DaysInMonth(y, m), y + 1, 1)
    ELSE CivilFrom(d - DaysInMonth(y, m), y, m + 1)

Civil(d) == CivilFrom(d, EpochYear, 1)

\* Day number of the first day of month m of year y.
RECURSIVE MonthFirstDay(_, _)
MonthFirstDay(y, m) ==
    IF y = EpochYear /\ m = 1 THEN 0
    ELSE IF m = 1 THEN MonthFirstDay(y - 1, 12) + DaysInMonth(y - 1, 12)
    ELSE MonthFirstDay(y, m - 1) + DaysInMonth(y, m - 1)

Pad2(n) == IF n < 10 THEN <<"0">> \o NatText(n) ELSE NatText(n)

\* Date.prototype.toISOString().split('T')[0]: the UTC calendar date of the
\* instant, as YYYY-MM-DD.
IsoDate(instant) ==
    LET c == Civil(instant \div HoursPerDay)
    IN  NatText(c.y) \o <<"-">> \o Pad2(c.m) \o <<"-">> \o Pad2(c.d)

\* The local wall clock of an instant in a zone tz hours east of UTC.
LocalHours(instant, tz) == instant + tz

\* Date.prototype.getDay: local day of the week, 0 is Sunday.
getDay(instant, tz) == ((LocalHours(instant, tz) \div HoursPerDay) + 1) % 7

\* Date.prototype.getDate: local day of the month.
getDate(instant, tz) == Civil(LocalHours(instant, tz) \div HoursPerDay).d

\* Date.prototype.setDate(n): the local day of the month becomes n (values
\* outside the month roll over), the local time of day is kept.
setDate(instant, tz, n) ==
    LET l == LocalHours(instant, tz)
        c == Civil(l \div HoursPerDay)
    IN  (MonthFirstDay(c.y, c.m) + n - 1) * HoursPerDay + (l % HoursPerDay) - tz

getWeekStart(instant, tz) ==
    LET day == getDay(instant, tz)
        diff == getDate(instant, tz) - day + (IF day = 0 THEN -6 ELSE 1)
    IN  IsoDate(setDate(instant, tz, diff))

getMonthStart(instant, tz) == IsoDate(setDate(instant, tz, 1))

\* ----------------------------------------------------------------- state

\* SQL NULL / JavaScript null in a text position: not a text of characters.
Null == <<"NULL">>

\* useState(null) for editId; AUTOINCREMENT ids start at 1.
NoId == 0

\* Bounds of the model: the ids AUTOINCREMENT gives, the statements in
\* flight, the steps of the clock in one run, and the last of the instants a
\* run of the date checks may start at.
MaxId == 2

MaxInflight == 2

MaxTicks == 1

MaxStartStep == 21

\* Hours the clock advances in one step, and the first instant of the model:
\* 2024-02-29T16:00Z, a Thursday, the last day of a month.
TickHours == HoursPerDay \div 3

ClockStart == 59 * HoursPerDay + 16

\* Offsets of the local zone from UTC, in hours.
TimeZones == {0, 8}

DateZones == {-8, 0, 8}

\* What the user types into the three fields before pressing a button: an
\* amount, a category and a note.
Form(a, c, n) == [ amount |-> a, category |-> c, note |-> n ]

FormInputs ==
    { Form(<<"1", "2", ".", "5">>, <<" ", "F", "o", "o", "d", " ">>, <<" ">>),
      Form(<<"2", "0">>, <<"B", "o", "o", "k", "s">>, <<"l", "u", "n", "c", "h">>),
      Form(<<"2", "0", ".", "0", ".", "5">>, <<"B", "o", "o", "k", "s">>, <<"l", "u", "n", "c", "h">>),
      Form(<<"0">>, <<"B", "o", "o", "k", "s">>, <<"l", "u", "n", "c", "h">>),
      Form(<<"1", "2", ".", "5">>, <<" ">>, <<"l", "u", "n", "c", "h">>) }

Filters == {"All", "This Week", "This Month"}

NoAlert == ""

VARIABLES
    clock,        \* the instant new Date() returns
    ticks,        \* the steps the clock has made
    tz,           \* the device's zone, hours east of UTC
    tableExists,  \* the table expenses exists
    rows,         \* the rows of the table expenses
    seq,          \* sqlite_sequence: the largest id AUTOINCREMENT has given
    mounted,      \* the component's effects have run
    expenses,     \* useState: the rows on display
    amount,       \* useState: the three text fields
    category,
    note,
    filter,       \* useState: the filter
    isEditing,    \* useState
    editId,       \* useState
    queue,        \* statements handed to the connection, oldest first
    alert,        \* the message of the Alert on display, or NoAlert
    lastStmt      \* how the last handler that reached the store ended: the
                  \* statement run and the rows it changed, or the exception

vars ==
    << clock, ticks, tz, tableExists, rows, seq, mounted, expenses, amount, category,
       note, filter, isEditing, editId, queue, alert, lastStmt >>

dbVars == << tableExists, rows, seq >>

formVars == << amount, category, note >>

editVars == << isEditing, editId >>

envVars == << clock, ticks, tz >>

\* ------------------------------------------------------------- the store

\* OrderedBefore with the ids of a day taken upwards.
OrderedBeforeIdAscending(a, b) ==
    IF a.date = b.date THEN a.id < b.id ELSE TextLess(b.date, a.date)

\* ORDER BY date DESC, id DESC: a comes before b.
OrderedBefore(a, b) ==
    IF a.date = b.date THEN a.id > b.id ELSE TextLess(b.date, a.date)

\* The rows of S in that order: each row is put behind the rows that come
\* before it.
RECURSIVE OrderBy(_)
OrderBy(S) ==
    IF S = {} THEN <<>>
    ELSE LET r == CHOOSE x \in S : TRUE
             rest == OrderBy(S \ {r})
             k == Cardinality({ i \in DOMAIN rest : OrderedBefore(rest[i], r) })
         IN  SubSeq(rest, 1, k) \o <<r>> \o SubSeq(rest, k + 1, Len(rest))

\* WHERE date >= lo AND date <= hi
InRange(r, lo, hi) == TextLeq(lo, r.date) /\ TextLeq(r.date, hi)

\* SELECT * FROM expenses [WHERE ...] ORDER BY date DESC, id DESC
SelectRows(table, stmt) ==
    OrderBy({ r \in table : stmt.where => InRange(r, stmt.lo, stmt.hi) })

\* InsertRow of a table declared without AUTOINCREMENT: the id is one more
\* than the largest id in the table.
InsertRowReusingIds(table, lastId, stmt) ==
    LET top == IF table = {} THEN 0
               ELSE CHOOSE n \in { r.id : r \in table } :
                        \A r \in table : r.id <= n
    IN  table \cup { [ id |-> top + 1, amount |-> stmt.amount,
                       category |-> stmt.category, note |-> stmt.note,
                       date |-> stmt.date ] }

\* INSERT INTO expenses (amount, category, note, date) VALUES (?, ?, ?, ?)
InsertRow(table, lastId, stmt) ==
    table \cup { [ id |-> lastId + 1, amount |-> stmt.amount,
                   category |-> stmt.category, note |-> stmt.note,
                   date |-> stmt.date ] }

\* DeleteRow with the comparison of the WHERE clause slipped to <=.
DeleteRowUpTo(table, stmt) == { r \in table : r.id > stmt.id }

\* DELETE FROM expenses WHERE id = ?
DeleteRow(table, stmt) == { r \in table : r.id # stmt.id }

\* UpdateRow with the WHERE clause left out.
UpdateRowNoWhere(table, stmt) ==
    { [ r EXCEPT !.amount = stmt.amount, !.category = stmt.category,
                 !.note = stmt.note ] : r \in table }

\* UPDATE expenses SET amount = ?, category = ?, note = ? WHERE id = ?
UpdateRow(table, stmt) ==
    { IF r.id = stmt.id
        THEN [ r EXCEPT !.amount = stmt.amount, !.category = stmt.category,
                        !.note = stmt.note ]
        ELSE r : r \in table }

\* ---------------------------------------------------- statements in flight

Stmt(op) ==
    [ op |-> op, id |-> NoId, amount |-> NaN, category |-> <<>>, note |-> Null,
      date |-> <<>>, where |-> FALSE, lo |-> <<>>, hi |-> <<>>, filter |-> "All" ]

\* The statement loadExpenses(currentFilter) hands to getAllAsync.
loadExpenses(currentFilter, instant, zone) ==
    LET now == IsoDate(instant)
        lo == IF currentFilter = "This Week" THEN getWeekStart(instant, zone)
              ELSE IF currentFilter = "This Month" THEN getMonthStart(instant, zone)
              ELSE <<>>
    IN  [ Stmt("select") EXCEPT !.where = (currentFilter # "All"),
                                !.lo = lo,
                                !.hi = (IF currentFilter # "All" THEN now ELSE <<>>),
                                !.filter = currentFilter ]

\* a || null on a text
OrNull(s) == IF s = <<>> THEN Null ELSE s

NoStmt == [ op |-> "none", changes |-> 0 ]

Init ==
    /\ clock = ClockStart
    /\ ticks = 0
    /\ tz \in TimeZones
    /\ tableExists = FALSE
    /\ rows = {}
    /\ seq = 0
    /\ mounted = FALSE
    /\ expenses = <<>>
    /\ amount = <<>>
    /\ category = <<>>
    /\ note = <<>>
    /\ filter = "All"
    /\ isEditing = FALSE
    /\ editId = NoId
    /\ queue = <<>>
    /\ alert = NoAlert
    /\ lastStmt = NoStmt

\* The two effects of the first render: setup() hands CREATE TABLE to
\* execAsync, then the [filter] effect calls loadExpenses(filter).
Mount ==
    /\ ~mounted
    /\ mounted' = TRUE
    /\ queue' = <<Stmt("exec"), loadExpenses(filter, clock, tz)>>
    /\ UNCHANGED << envVars, dbVars, expenses, formVars, filter, editVars,
                    alert, lastStmt >>

\* The user can act on the screen: it is mounted and no Alert covers it.
CanAct == mounted /\ alert = NoAlert

CanIssue == CanAct /\ Len(queue) < MaxInflight

\* ------------------------------------------------------- the user's steps

\* onChangeText of the three fields: setAmount, setCategory, setNote.  The
\* user fills the form in one step.
FillForm(f) ==
    /\ CanAct
    /\ amount' = f.amount
    /\ category' = f.category
    /\ note' = f.note
    /\ UNCHANGED << envVars, dbVars, mounted, expenses, filter, editVars, queue,
                    alert, lastStmt >>

\* A filter button: setFilter(f); the [filter] effect then calls
\* loadExpenses(filter).  Pressing the active filter renders nothing anew.
PressFilter(f) ==
    /\ CanIssue
    /\ f # filter
    /\ filter' = f
    /\ queue' = Append(queue, loadExpenses(f, clock, tz))
    /\ UNCHANGED << envVars, dbVars, mounted, expenses, formVars, editVars,
                    alert, lastStmt >>

\* Inserts handed to the connection and not yet run.
PendingInserts == Cardinality({ i \in DOMAIN queue : queue[i].op = "insert" })

\* String.prototype.trim called on null throws a TypeError: the handler's
\* promise is rejected and nothing awaits it.
TypeError == [ op |-> "TypeError", changes |-> 0 ]

\* addExpense up to its await: validation, then the INSERT is handed over.
\* The statement keeps the filter of the render the handler belongs to.
addExpense ==
    LET amountNumber == parseFloat(amount)
    IN  IF isNaN(amountNumber) \/ LeqZero(amountNumber)
        THEN /\ alert' = "Please enter a valid amount and category."
             /\ UNCHANGED << queue, lastStmt >>
        ELSE IF Trim(category) = <<>>
        THEN /\ alert' = "Category is required."
             /\ UNCHANGED << queue, lastStmt >>
        ELSE IF note = Null
        THEN /\ lastStmt' = TypeError
             /\ UNCHANGED << queue, alert >>
        ELSE /\ Len(queue) < MaxInflight
             /\ seq + PendingInserts < MaxId
             /\ queue' = Append(queue,
                    [ Stmt("insert") EXCEPT !.amount = amountNumber,
                                            !.category = Trim(category),
                                            !.note = OrNull(Trim(note)),
                                            !.date = IsoDate(clock),
                                            !.filter = filter ])
             /\ UNCHANGED << alert, lastStmt >>

\* The button of the form while no edit is in progress.
PressAdd ==
    /\ CanAct
    /\ ~isEditing
    /\ addExpense
    /\ UNCHANGED << envVars, dbVars, mounted, expenses, formVars, filter,
                    editVars >>

\* updateExpense whose validation alerts and does not return.
updateExpenseNoReturn ==
    /\ alert' = IF \/ isNaN(parseFloat(amount))
                   \/ LeqZero(parseFloat(amount))
                   \/ Trim(category) = <<>>
                   \/ editId = NoId
                  THEN "Please correct the input fields."
                  ELSE alert
    /\ note # Null
    /\ Len(queue) < MaxInflight
    /\ queue' = Append(queue,
           [ Stmt("update") EXCEPT !.amount = parseFloat(amount),
                                   !.category = Trim(category),
                                   !.note = OrNull(Trim(note)),
                                   !.id = editId,
                                   !.filter = filter ])
    /\ UNCHANGED lastStmt

\* updateExpense up to its await.
updateExpense ==
    LET amountNumber == parseFloat(amount)
    IN  IF \/ isNaN(amountNumber)
           \/ LeqZero(amountNumber)
           \/ Trim(category) = <<>>
           \/ editId = NoId
        THEN /\ alert' = "Please correct the input fields."
             /\ UNCHANGED << queue, lastStmt >>
        ELSE IF note = Null
        THEN /\ lastStmt' = TypeError
             /\ UNCHANGED << queue, alert >>
        ELSE /\ Len(queue) < MaxInflight
             /\ queue' = Append(queue,
                    [ Stmt("update") EXCEPT !.amount = amountNumber,
                                            !.category = Trim(category),
                                            !.note = OrNull(Trim(note)),
                                            !.id = editId,
                                            !.filter = filter ])
             /\ UNCHANGED << alert, lastStmt >>

\* The button of the form while an edit is in progress.
PressSave ==
    /\ CanAct
    /\ isEditing
    /\ updateExpense
    /\ UNCHANGED << envVars, dbVars, mounted, expenses, formVars, filter,
                    editVars >>

\* Cancel Edit
PressCancel ==
    /\ CanAct
    /\ isEditing
    /\ isEditing' = FALSE
    /\ editId' = NoId
    /\ amount' = <<>>
    /\ category' = <<>>
    /\ note' = <<>>
    /\ UNCHANGED << envVars, dbVars, mounted, expenses, filter, queue, alert,
                    lastStmt >>

\* handleEditPress without setIsEditing(true).
handleEditPressIdOnly(item) ==
    /\ editId' = item.id
    /\ amount' = NumberToString(item.amount)
    /\ category' = item.category
    /\ note' = item.note
    /\ isEditing' = isEditing

\* A row of the list is pressed: handleEditPress(item)
handleEditPress(item) ==
    /\ editId' = item.id
    /\ amount' = NumberToString(item.amount)
    /\ category' = item.category
    /\ note' = item.note
    /\ isEditing' = TRUE

PressRow(i) ==
    /\ CanAct
    /\ i \in DOMAIN expenses
    /\ handleEditPress(expenses[i])
    /\ UNCHANGED << envVars, dbVars, mounted, expenses, filter, queue, alert,
                    lastStmt >>

\* The cross of a row: deleteExpense(item.id) up to its await.
deleteExpense(id) ==
    queue' = Append(queue, [ Stmt("delete") EXCEPT !.id = id, !.filter = filter ])

PressDelete(i) ==
    /\ CanIssue
    /\ i \in DOMAIN expenses
    /\ deleteExpense(expenses[i].id)
    /\ UNCHANGED << envVars, dbVars, mounted, expenses, formVars, filter,
                    editVars, alert, lastStmt >>

\* The Alert's button
DismissAlert ==
    /\ alert # NoAlert
    /\ alert' = NoAlert
    /\ UNCHANGED << envVars, dbVars, mounted, expenses, formVars, filter,
                    editVars, queue, lastStmt >>

\* Time passes.
Tick ==
    /\ ticks < MaxTicks
    /\ ticks' = ticks + 1
    /\ clock' = clock + TickHours
    /\ UNCHANGED << tz, dbVars, mounted, expenses, formVars, filter, editVars,
                    queue, alert, lastStmt >>

\* ------------------------------------------- statements run and are resumed

\* The connection runs the statements in the order they were handed over;
\* the awaiting function resumes with the result.
Head1 == Head(queue)

\* ThenLoad without the call of loadExpenses.
ThenNoLoad(f) == queue' = Tail(queue)

\* The awaiting function goes on to loadExpenses(f).
ThenLoad(f) == queue' = Append(Tail(queue), loadExpenses(f, clock, tz))

\* A statement on a table that does not exist is rejected, and nothing
\* catches the rejection.
Rejected ==
    /\ lastStmt' = [ op |-> "no such table", changes |-> 0 ]
    /\ queue' = Tail(queue)
    /\ UNCHANGED << dbVars, expenses, formVars, filter, editVars >>

\* setup(): CREATE TABLE IF NOT EXISTS has run; then await loadExpenses('All')
CompleteExec ==
    /\ queue # <<>>
    /\ Head1.op = "exec"
    /\ tableExists' = TRUE
    /\ ThenLoad("All")
    /\ UNCHANGED << envVars, rows, seq, mounted, expenses, formVars, filter,
                    editVars, alert, lastStmt >>

\* addExpense after its await
CompleteInsert ==
    /\ queue # <<>>
    /\ Head1.op = "insert"
    /\ IF ~tableExists THEN Rejected
       ELSE /\ rows' = InsertRow(rows, seq, Head1)
            /\ seq' = seq + 1
            /\ lastStmt' = [ op |-> "insert", changes |-> 1 ]
            /\ amount' = <<>>
            /\ category' = <<>>
            /\ note' = <<>>
            /\ ThenLoad(Head1.filter)
            /\ UNCHANGED << tableExists, expenses, filter, editVars >>
    /\ UNCHANGED << envVars, mounted, alert >>

\* deleteExpense after its await
CompleteDelete ==
    /\ queue # <<>>
    /\ Head1.op = "delete"
    /\ IF ~tableExists THEN Rejected
       ELSE /\ rows' = DeleteRow(rows, Head1)
            /\ lastStmt' = [ op |-> "delete",
                             changes |-> Cardinality(rows) - Cardinality(rows') ]
            /\ ThenLoad(Head1.filter)
            /\ UNCHANGED << tableExists, seq, expenses, formVars, filter,
                            editVars >>
    /\ UNCHANGED << envVars, mounted, alert >>

\* updateExpense after its await
CompleteUpdate ==
    /\ queue # <<>>
    /\ Head1.op = "update"
    /\ IF ~tableExists THEN Rejected
       ELSE /\ rows' = UpdateRow(rows, Head1)
            /\ lastStmt' = [ op |-> "update",
                             changes |-> Cardinality({ r \in rows : r.id = Head1.id }) ]
            /\ isEditing' = FALSE
            /\ editId' = NoId
            /\ amount' = <<>>
            /\ category' = <<>>
            /\ note' = <<>>
            /\ ThenLoad(Head1.filter)
            /\ UNCHANGED << tableExists, seq, expenses, filter >>
    /\ UNCHANGED << envVars, mounted, alert >>

\* loadExpenses after its await: setExpenses(rows); setFilter(currentFilter);
\* when that changes the filter, the [filter] effect loads again.
CompleteSelect ==
    /\ queue # <<>>
    /\ Head1.op = "select"
    /\ IF ~tableExists THEN Rejected
       ELSE /\ expenses' = SelectRows(rows, Head1)
            /\ filter' = Head1.filter
            /\ queue' = IF Head1.filter # filter
                          THEN Append(Tail(queue), loadExpenses(Head1.filter, clock, tz))
                          ELSE Tail(queue)
            /\ UNCHANGED << dbVars, formVars, editVars, lastStmt >>
    /\ UNCHANGED << envVars, mounted, alert >>

Next ==
    \/ Mount
    \/ \E f \in FormInputs : FillForm(f)
    \/ \E f \in Filters : PressFilter(f)
    \/ PressAdd
    \/ PressSave
    \/ PressCancel
    \/ \E i \in 1..MaxId : PressRow(i)
    \/ \E i \in 1..MaxId : PressDelete(i)
    \/ DismissAlert
    \/ CompleteExec
    \/ CompleteInsert
    \/ CompleteDelete
    \/ CompleteUpdate
    \/ CompleteSelect

Spec == Init /\ [][Next]_vars

\* ------------------------------------------------- the dates of the screen

\* A table left by earlier sessions: one row for each of these days (day
\* numbers since 2024-01-01, some days twice), from 2024-01-31 to 2024-03-08.
SeedDays ==
    << 30, 31, 54, 55, 56, 57, 58, 59, 60, 60, 61, 62, 63, 64, 65, 66, 66, 67 >>

\* The ids of the rows are the multiples of m modulo Len(SeedDays) + 1, so
\* that the order of the ids is not the order of the dates.
SeedTable(m) ==
    { [ id |-> (i * m) % (Len(SeedDays) + 1),
        amount |-> IF i % 2 = 0 THEN Num(125) ELSE Num(200),
        category |-> IF i % 2 = 0 THEN <<"F", "o", "o", "d">>
                     ELSE <<"B", "o", "o", "k", "s">>,
        note |-> Null,
        date |-> IsoDate(SeedDays[i] * HoursPerDay) ] : i \in DOMAIN SeedDays }

SeedOrders == {1, 7}

\* The screen opens on a table of earlier sessions, at any instant of a
\* week in any of the zones.
InitDates ==
    /\ clock \in { ClockStart + k * TickHours : k \in 0..MaxStartStep }
    /\ ticks = 0
    /\ tz \in DateZones
    /\ tableExists = TRUE
    /\ rows \in { SeedTable(m) : m \in SeedOrders }
    /\ seq = Len(SeedDays)
    /\ mounted = FALSE
    /\ expenses = <<>>
    /\ amount = <<>>
    /\ category = <<>>
    /\ note = <<>>
    /\ filter = "All"
    /\ isEditing = FALSE
    /\ editId = NoId
    /\ queue = <<>>
    /\ alert = NoAlert
    /\ lastStmt = NoStmt

NextDates ==
    \/ Mount
    \/ \E f \in Filters : PressFilter(f)
    \/ Tick
    \/ CompleteExec
    \/ CompleteSelect

SpecDates == InitDates /\ [][NextDates]_vars

\* ---------------------------------------------------------------- claims

\* The text is a decimal numeral: digits, with at most one point.
IsNumeral(s) ==
    /\ \E i \in DOMAIN s : IsDigit(s[i])
    /\ \A i \in DOMAIN s : IsDigit(s[i]) \/ s[i] = "."
    /\ Cardinality({ i \in DOMAIN s : s[i] = "." }) <= 1

\* The value of a numeral, in tenths.
NumeralValue(s) ==
    LET k == IF \E i \in DOMAIN s : s[i] = "."
               THEN CHOOSE i \in DOMAIN s : s[i] = "."
               ELSE Len(s) + 1
    IN  10 * DigitsValue(SubSeq(s, 1, k - 1))
          + (IF k < Len(s) THEN DigitVal(s[k + 1]) ELSE 0)

\* The amount field holds a number greater than 0.
AmountValid == IsNumeral(Trim(amount)) /\ NumeralValue(Trim(amount)) > 0

\* The category field is not empty after trimming.
CategoryValid == Trim(category) # <<>>

\* The note as it is to be stored: absent when empty after trimming.
NoteNormalized == IF note = Null \/ Trim(note) = <<>> THEN Null ELSE Trim(note)

\* The calendar date on the wall clock of the zone.
LocalDate(instant, zone) == IsoDate(instant + zone)

Ids(table) == { r.id : r \in table }

Last(q) == q[Len(q)]

\* query(All) over a table, as the set of the rows returned
QueryAll(table) ==
    LET result == SelectRows(table, loadExpenses("All", ClockStart, 0))
    IN  { result[i] : i \in DOMAIN result }

\* C1: an add with an amount > 0 and a category that is not empty after
\* trimming hands over a record with that amount, the trimmed category, the
\* note absent when empty after trimming and the date of today (the local
\* calendar date, section 3 of the specification); once it has run,
\* query(All) returns the previous records and exactly that new record.
C1_AddThenQueryAll ==
    [][ /\ (PressAdd /\ AmountValid /\ CategoryValid) =>
              /\ Len(queue') = Len(queue) + 1
              /\ Last(queue').op = "insert"
              /\ Last(queue').amount = Num(NumeralValue(Trim(amount)))
              /\ Last(queue').category = Trim(category)
              /\ Last(queue').note = NoteNormalized
              /\ Last(queue').date = LocalDate(clock, tz)
        /\ CompleteInsert =>
              /\ rows \subseteq rows'
              /\ Cardinality(rows' \ rows) = 1
              /\ \A r \in rows' \ rows :
                    /\ r.amount = Head1.amount
                    /\ r.category = Head1.category
                    /\ r.note = Head1.note
                    /\ r.date = Head1.date
              /\ QueryAll(rows') = rows'
      ]_vars

\* C1 without its clause on the date: everything else of the claim holds.
C1_AddThenQueryAllButDate ==
    [][ /\ (PressAdd /\ AmountValid /\ CategoryValid) =>
              /\ Len(queue') = Len(queue) + 1
              /\ Last(queue').op = "insert"
              /\ Last(queue').amount = Num(NumeralValue(Trim(amount)))
              /\ Last(queue').category = Trim(category)
              /\ Last(queue').note = NoteNormalized
        /\ CompleteInsert =>
              /\ rows \subseteq rows'
              /\ Cardinality(rows' \ rows) = 1
              /\ \A r \in rows' \ rows :
                    /\ r.amount = Head1.amount
                    /\ r.category = Head1.category
                    /\ r.note = Head1.note
                    /\ r.date = Head1.date
              /\ QueryAll(rows') = rows'
      ]_vars

\* C2: an add whose amount is not a number, or is <= 0, or whose category
\* is empty after trimming fails: the failure is shown, nothing is handed to
\* the store and the records stay as they are.
C2_InvalidAddFails ==
    [][ (PressAdd /\ (~AmountValid \/ ~CategoryValid)) =>
            /\ alert' # NoAlert
            /\ queue' = queue
            /\ rows' = rows
      ]_vars

\* C3: saving an edit of an existing record, with or without a note, with a
\* valid amount and category hands over the update of that record with the
\* submitted values (an empty note as absent); once it has run, exactly that
\* record carries them and query(All) returns it.
C3_EditSaveReplaces ==
    [][ /\ (PressSave /\ editId \in Ids(rows) /\ AmountValid /\ CategoryValid) =>
              /\ Len(queue') = Len(queue) + 1
              /\ Last(queue').op = "update"
              /\ Last(queue').id = editId
              /\ Last(queue').amount = Num(NumeralValue(Trim(amount)))
              /\ Last(queue').category = Trim(category)
              /\ Last(queue').note = NoteNormalized
        /\ (CompleteUpdate /\ Head1.id \in Ids(rows)) =>
              /\ \E r \in rows' :
                    /\ r.id = Head1.id
                    /\ r.amount = Head1.amount
                    /\ r.category = Head1.category
                    /\ r.note = Head1.note
                    /\ r \in QueryAll(rows')
              /\ \A r \in rows : r.id # Head1.id => r \in rows'
      ]_vars

\* C4: an update of an id no record has fails: the failure is shown, the
\* records stay as they are, and the edit is not closed as after a success.
C4_UpdateMissingFails ==
    [][ (CompleteUpdate /\ Head1.id \notin Ids(rows)) =>
            /\ rows' = rows
            /\ alert' # NoAlert
            /\ UNCHANGED << isEditing, editId, amount, category, note >>
      ]_vars

\* C5: an update changes no id and no date, whatever its input, and leaves
\* the records other than the one it names as they are.
C5_UpdateKeepsIdAndDate ==
    [][ /\ PressSave => rows' = rows
        /\ CompleteUpdate =>
              /\ Ids(rows') = Ids(rows)
              /\ Cardinality(rows') = Cardinality(rows)
              /\ \A r \in rows : \E r2 \in rows' :
                    /\ r2.id = r.id
                    /\ r2.date = r.date
                    /\ r.id # Head1.id => r2 = r
      ]_vars

\* An update has changed a record of a table of two.
C5_Witness ==
    /\ lastStmt = [ op |-> "update", changes |-> 1 ]
    /\ Cardinality(rows) = 2
    /\ \E r \in rows : r.note = Null
    /\ \E r \in rows : r.note # Null

\* C6: a remove takes away the record of its id and no other; on an id that
\* no record has it changes nothing and raises no error, so that a second
\* remove of the same id leaves what the first left.
C6_RemoveIdempotent ==
    [][ CompleteDelete =>
            /\ rows' \subseteq rows
            /\ \A r \in rows \ rows' : r.id = Head1.id
            /\ Head1.id \notin Ids(rows')
            /\ Head1.id \notin Ids(rows) =>
                  /\ rows' = rows
                  /\ alert' = alert
                  /\ lastStmt' = [ op |-> "delete", changes |-> 0 ]
      ]_vars

\* A remove has run on an id no record had, another record being there.
C6_Witness ==
    /\ lastStmt = [ op |-> "delete", changes |-> 0 ]
    /\ rows # {}

\* The day number of a YYYY-MM-DD text.
DayOf(d) ==
    MonthFirstDay(DigitsValue(SubSeq(d, 1, 4)), DigitsValue(SubSeq(d, 6, 7)))
        + DigitsValue(SubSeq(d, 9, 10)) - 1

\* The day number of today, on the wall clock of the zone and in UTC.
LocalToday == (clock + tz) \div HoursPerDay
UtcToday == clock \div HoursPerDay

\* The first day of the month of day d, and the Monday on or before day d
\* (day 0, 2024-01-01, is a Monday).
MonthStartOf(d) == LET c == Civil(d) IN MonthFirstDay(c.y, c.m)
WeekStartOf(d) == d - (d % 7)

RowsBetween(table, lo, hi) ==
    { r \in table : lo <= DayOf(r.date) /\ DayOf(r.date) <= hi }

\* A step that hands a new statement to the connection: it is the last of
\* the queue after the step.
Issues(kind) ==
    /\ queue' # <<>>
    /\ queue' # queue
    /\ queue = <<>> \/ queue' # Tail(queue)
    /\ Last(queue').op = kind

\* The rows the statement issued in this step selects from the table.
IssuedSelection ==
    LET result == SelectRows(rows, Last(queue'))
    IN  { result[i] : i \in DOMAIN result }

\* C7: a query with filter This Month returns exactly the records dated from
\* the first day of the month of today to today, both included. Today is
\* read as the local date (section 3 of the specification) or as the UTC
\* date: the statement is the weaker of the two readings.
C7_ThisMonthRange ==
    [][ Issues("select") /\ Last(queue').filter = "This Month" =>
            \/ IssuedSelection
                 = RowsBetween(rows, MonthStartOf(LocalToday), LocalToday)
            \/ IssuedSelection
                 = RowsBetween(rows, MonthStartOf(UtcToday), UtcToday)
      ]_vars

\* C8: a query with filter This Week returns exactly the records dated from
\* the Monday on or before today to today, both included, under either
\* reading of today.
C8_ThisWeekRange ==
    [][ Issues("select") /\ Last(queue').filter = "This Week" =>
            \/ IssuedSelection
                 = RowsBetween(rows, WeekStartOf(LocalToday), LocalToday)
            \/ IssuedSelection
                 = RowsBetween(rows, WeekStartOf(UtcToday), UtcToday)
      ]_vars

\* C9: the date an add stores is the calendar date of today on the wall
\* clock of the user's zone, and every record an add has stored has the
\* local date of the add (the clock of this specification stands still).
C9_AddStoresLocalDate ==
    [][ /\ Issues("insert") => Last(queue').date = LocalDate(clock, tz)
        /\ CompleteInsert =>
              \A r \in rows' \ rows : r.date = LocalDate(clock, tz)
      ]_vars

\* C10: the records a query returns are ordered by date descending and,
\* within a date, by id descending.
C10_QueryOrdered ==
    \A i, j \in DOMAIN expenses :
        i < j =>
            \/ DayOf(expenses[i].date) > DayOf(expenses[j].date)
            \/ /\ DayOf(expenses[i].date) = DayOf(expenses[j].date)
               /\ expenses[i].id > expenses[j].id

\* A filtered query has returned records of several dates, two of them of
\* one date, from a table whose ids do not follow the dates.
C10_Witness ==
    /\ filter # "All"
    /\ queue = <<>>
    /\ \E i, j \in DOMAIN expenses :
          /\ i < j
          /\ expenses[i].date = expenses[j].date
    /\ \E i, j \in DOMAIN expenses :
          /\ i < j
          /\ expenses[i].date # expenses[j].date
          /\ expenses[i].id < expenses[j].id

\* ----------------------------------------------- the amounts of the screen

\* Amount texts at the edges of the validation: a text whose number is
\* Infinity (as is a run of some 310 digits), its negative, a text with no
\* number in it, and an ordinary amount.
AmountForms ==
    { Form(InfinityText, <<"B", "o", "o", "k", "s">>, <<"l", "u", "n", "c", "h">>),
      Form(<<"-">> \o InfinityText, <<"B", "o", "o", "k", "s">>, <<"l", "u", "n", "c", "h">>),
      Form(<<".">>, <<"B", "o", "o", "k", "s">>, <<"l", "u", "n", "c", "h">>),
      Form(<<"1", "2", ".", "5">>, <<"F", "o", "o", "d">>, <<"l", "u", "n", "c", "h">>) }

NextAmounts ==
    \/ Mount
    \/ \E f \in AmountForms : FillForm(f)
    \/ PressAdd
    \/ PressSave
    \/ \E i \in 1..MaxId : PressRow(i)
    \/ DismissAlert
    \/ CompleteExec
    \/ CompleteInsert
    \/ CompleteUpdate
    \/ CompleteSelect

SpecAmounts == Init /\ [][NextAmounts]_vars

\* C11: every record of the store has an amount that is a finite number
\* greater than 0 and a category that is not empty after trimming, and an
\* add or update whose amount field holds no finite number hands no write to
\* the store.
C11_AmountsFinitePositive ==
    [][ /\ \A r \in rows' :
              /\ r.amount.t = "num"
              /\ r.amount.v > 0
              /\ Trim(r.category) # <<>>
        /\ (PressAdd \/ PressSave) /\ parseFloat(amount).t # "num" =>
              queue' = queue
      ]_vars

\* ------------------------------------------------ the totals of the screen

\* A JavaScript string that is not a number, as + gives when one of its
\* operands is an object or a string.
Str == [t |-> "str", v |-> 0]

\* A value is truthy: not 0, not NaN (objects and non-empty strings are).
Truthy(x) == x.t = "str" \/ x.t = "inf" \/ (x.t = "num" /\ x.v # 0)

\* a + b: concatenation when an operand is a string, else the sum.
Plus(a, b) ==
    IF a.t = "str" \/ b.t = "str" THEN Str
    ELSE IF a.t = "nan" \/ b.t = "nan" THEN NaN
    ELSE IF a.t = "inf" /\ b.t = "inf" THEN (IF a.v = b.v THEN a ELSE NaN)
    ELSE IF a.t = "inf" THEN a
    ELSE IF b.t = "inf" THEN b
    ELSE Num(a.v + b.v)

\* Names every object literal {} inherits from Object.prototype; reading one
\* of them on a map that has no such key of its own gives the inherited
\* function or object.
ProtoText == <<"_", "_", "p", "r", "o", "t", "o", "_", "_">>

ConstructorText == <<"c", "o", "n", "s", "t", "r", "u", "c", "t", "o", "r">>

ObjectPrototypeKeys == { ConstructorText, ProtoText }

\* Object.keys(map) with the values, in the order the keys were added.
HasOwn(map, cat) == \E i \in DOMAIN map : map[i].category = cat

OwnValue(map, cat) ==
    map[CHOOSE i \in DOMAIN map : map[i].category = cat].total

\* (map[cat] || 0) + expense.amount
NewTotal(map, cat, amt) ==
    IF HasOwn(map, cat)
      THEN Plus(IF Truthy(OwnValue(map, cat)) THEN OwnValue(map, cat) ELSE Num(0), amt)
    ELSE IF cat \in ObjectPrototypeKeys THEN Str
    ELSE Plus(Num(0), amt)

\* map[cat] = value: an assignment to __proto__ of a value that is no object
\* is dropped; any other key becomes or stays a key of the map itself.
Assign(map, cat, value) ==
    IF cat = ProtoText THEN map
    ELSE IF HasOwn(map, cat)
      THEN [ i \in DOMAIN map |->
               IF map[i].category = cat
                 THEN [ category |-> cat, total |-> value ] ELSE map[i] ]
    ELSE Append(map, [ category |-> cat, total |-> value ])

\* expenses.reduce((map, expense) => ..., {})
RECURSIVE categoryMap(_)
categoryMap(list) ==
    IF list = <<>> THEN <<>>
    ELSE LET map == categoryMap(SubSeq(list, 1, Len(list) - 1))
             expense == list[Len(list)]
         IN  Assign(map, expense.category,
                    NewTotal(map, expense.category, expense.amount))

\* expenses.reduce((acc, expense) => acc + expense.amount, 0)
RECURSIVE total(_)
total(list) ==
    IF list = <<>> THEN Num(0)
    ELSE Plus(total(SubSeq(list, 1, Len(list) - 1)), list[Len(list)].amount)

\* The comparator (a, b) => b.total - a.total says a goes behind b; a
\* difference that is NaN counts as 0.
Behind(a, b) ==
    /\ a.total.t # "str" /\ b.total.t # "str"
    /\ a.total.t # "nan" /\ b.total.t # "nan"
    /\ IF b.total.t = "inf"
         THEN b.total.v > 0 /\ (a.total.t # "inf" \/ a.total.v < 0)
       ELSE IF a.total.t = "inf" THEN a.total.v < 0
       ELSE b.total.v > a.total.v

\* Array.prototype.sort, stable: each entry goes behind the entries that
\* were before it unless the comparator puts it ahead of them.
RECURSIVE sort(_)
sort(list) ==
    IF list = <<>> THEN <<>>
    ELSE LET rest == sort(SubSeq(list, 1, Len(list) - 1))
             e == list[Len(list)]
             k == Cardinality({ i \in DOMAIN rest : ~Behind(rest[i], e) })
         IN  SubSeq(rest, 1, k) \o <<e>> \o SubSeq(rest, k + 1, Len(rest))

\* useMemo(() => ..., [expenses])
overallTotal == total(expenses)

categoryTotals == sort(categoryMap(expenses))

\* A table of earlier sessions whose last two rows have the category c.
TotalsRows == 5

TotalsTable(c) ==
    { [ id |-> 1, amount |-> Num(125), category |-> <<"F", "o", "o", "d">>,
        note |-> Null, date |-> IsoDate(30 * HoursPerDay) ],
      [ id |-> 2, amount |-> Num(200), category |-> <<"B", "o", "o", "k", "s">>,
        note |-> Null, date |-> IsoDate(57 * HoursPerDay) ],
      [ id |-> 3, amount |-> Num(200), category |-> <<"F", "o", "o", "d">>,
        note |-> Null, date |-> IsoDate(59 * HoursPerDay) ],
      [ id |-> 4, amount |-> Num(125), category |-> c,
        note |-> Null, date |-> IsoDate(59 * HoursPerDay) ],
      [ id |-> 5, amount |-> Num(200), category |-> c,
        note |-> Null, date |-> IsoDate(57 * HoursPerDay) ] }

TotalsCategories == { <<"R", "e", "n", "t">>, ConstructorText, ProtoText }

InitTotals ==
    /\ clock = ClockStart
    /\ ticks = 0
    /\ tz \in TimeZones
    /\ tableExists = TRUE
    /\ rows \in { TotalsTable(c) : c \in TotalsCategories }
    /\ seq = TotalsRows
    /\ mounted = FALSE
    /\ expenses = <<>>
    /\ amount = <<>>
    /\ category = <<>>
    /\ note = <<>>
    /\ filter = "All"
    /\ isEditing = FALSE
    /\ editId = NoId
    /\ queue = <<>>
    /\ alert = NoAlert
    /\ lastStmt = NoStmt

NextTotals ==
    \/ Mount
    \/ \E f \in Filters : PressFilter(f)
    \/ \E i \in 1..TotalsRows : PressDelete(i)
    \/ CompleteExec
    \/ CompleteDelete
    \/ CompleteSelect

SpecTotals == InitTotals /\ [][NextTotals]_vars

\* The sum of the amounts of a list of records, in tenths.
RECURSIVE SumAmounts(_)
SumAmounts(list) ==
    IF list = <<>> THEN 0 ELSE list[1].amount.v + SumAmounts(Tail(list))

\* The sum of the totals of a list of category entries, in tenths.
RECURSIVE SumTotals(_)
SumTotals(list) ==
    IF list = <<>> THEN 0 ELSE list[1].total.v + SumTotals(Tail(list))

DistinctCategories == { expenses[i].category : i \in DOMAIN expenses }

TotalsAgree ==
    /\ overallTotal = Num(SumAmounts(expenses))
    /\ \A i \in DOMAIN categoryTotals : categoryTotals[i].total.t = "num"
    /\ Num(SumTotals(categoryTotals)) = overallTotal
    /\ { categoryTotals[i].category : i \in DOMAIN categoryTotals }
          = DistinctCategories
    /\ Len(categoryTotals) = Cardinality(DistinctCategories)

\* C12: for every set of records on display, the empty one too, the totals
\* of the entries of categoryTotals add up to overallTotal, overallTotal is
\* the sum of the amounts (0 for no record), and categoryTotals has one
\* entry for each category of the records.
C12_TotalsAgree == TotalsAgree

\* C12 for the records whose categories are no names of Object.prototype.
C12_TotalsAgreeOwnNames ==
    DistinctCategories \cap ObjectPrototypeKeys = {} => TotalsAgree

\* C13: the operations on the store are issued one after another, each
\* after the one before it has completed: at most one is in flight.
C13_OneOperationInFlight == Len(queue) <= 1

\* ------------------------------------------------ a ledger of two months

\* The screen opens on a table that holds one record of last month, so that
\* the filters tell the records apart.
LedgerTable ==
    { [ id |-> 1, amount |-> Num(125), category |-> <<"F", "o", "o", "d">>,
        note |-> <<"l", "u", "n", "c", "h">>, date |-> IsoDate(30 * HoursPerDay) ] }

InitLedger ==
    /\ clock = ClockStart
    /\ ticks = 0
    /\ tz \in TimeZones
    /\ tableExists = TRUE
    /\ rows = LedgerTable
    /\ seq = Cardinality(LedgerTable)
    /\ mounted = FALSE
    /\ expenses = <<>>
    /\ amount = <<>>
    /\ category = <<>>
    /\ note = <<>>
    /\ filter = "All"
    /\ isEditing = FALSE
    /\ editId = NoId
    /\ queue = <<>>
    /\ alert = NoAlert
    /\ lastStmt = NoStmt

SpecLedger == InitLedger /\ [][Next]_vars

\* query with the active filter over the records of the store, now.
QueryNow == SelectRows(rows, loadExpenses(filter, clock, tz))

\* C14: whenever no operation on the store is in flight, the records on
\* display are the result of the query with the active filter over the
\* records of the store, in the order of the query.
C14_DisplayIsQueryAtRest ==
    mounted /\ queue = <<>> => expenses = QueryNow

\* An add has completed under a filter that leaves a record of the store
\* out, and the display has come to rest.
C14_Witness ==
    /\ mounted
    /\ queue = <<>>
    /\ filter # "All"
    /\ lastStmt = [ op |-> "insert", changes |-> 1 ]
    /\ expenses # <<>>
    /\ Len(expenses) < Cardinality(rows)

\* C15: when add or update is rejected by the validation, no write and no
\* query is handed to the store, and the records of the store and the
\* records on display stay as they were.
C15_RejectedChangesNothing ==
    [][ (PressAdd \/ PressSave) /\ alert' # NoAlert =>
            /\ queue' = queue
            /\ rows' = rows
            /\ seq' = seq
            /\ expenses' = expenses
      ]_vars

\* A save has been rejected while the table holds a record, nothing being
\* in flight.
C15_Witness ==
    /\ alert = "Please correct the input fields."
    /\ isEditing
    /\ rows # {}
    /\ queue = <<>>

\* C16: the ids of the records are unique and never used again: every add
\* gives an id greater than every id given before (seq, the largest of
\* them, outlives the removal of its record), and no step changes the id of
\* a record or brings an id about other than by an add.
C16_IdsUniqueNeverReused ==
    [][ /\ Cardinality(Ids(rows')) = Cardinality(rows')
        /\ \A r \in rows' : r.id \notin Ids(rows) => r.id > seq
        /\ \A r \in rows' : r.id <= seq'
        /\ seq' >= seq
        /\ ~CompleteInsert => Ids(rows') \subseteq Ids(rows)
        /\ CompleteInsert => Ids(rows) \subseteq Ids(rows')
      ]_vars

\* The first record has been removed and a second add has run since.
C16_Witness ==
    /\ lastStmt = [ op |-> "insert", changes |-> 1 ]
    /\ Ids(rows) = {2}

\* C17: in every state between two handlers (the state updates of one
\* handler are rendered together) the editing flag is set exactly when an
\* edit id is selected; starting an edit sets both, cancelling and saving
\* clear both.
C17_EditStateConsistent ==
    [][ /\ isEditing <=> editId # NoId
        /\ isEditing' <=> editId' # NoId
        /\ (\E i \in DOMAIN expenses : PressRow(i)) =>
              /\ isEditing'
              /\ \E i \in DOMAIN expenses : editId' = expenses[i].id
        /\ PressCancel \/ (CompleteUpdate /\ tableExists) =>
              /\ ~isEditing'
              /\ editId' = NoId
      ]_vars

\* An edit has been saved and an edit of the second record is open.
C17_Witness ==
    /\ isEditing
    /\ editId = 2
    /\ lastStmt = [ op |-> "update", changes |-> 1 ]

\* C18: while an edit is open, the store holds the record of the edit id.
C18_EditedRecordExists == isEditing => editId \in Ids(rows)

\* ------------------------------------------------------------- liveness

\* The steps the user (or the start of the screen) takes.
UserStep ==
    \/ Mount
    \/ \E f \in FormInputs : FillForm(f)
    \/ \E f \in Filters : PressFilter(f)
    \/ PressAdd
    \/ PressSave
    \/ PressCancel
    \/ \E i \in 1..MaxId : PressRow(i)
    \/ \E i \in 1..MaxId : PressDelete(i)
    \/ DismissAlert

\* The steps of the connection: the oldest statement in flight runs and its
\* handler is resumed.
Completes ==
    \/ CompleteExec
    \/ CompleteInsert
    \/ CompleteDelete
    \/ CompleteUpdate
    \/ CompleteSelect

\* The connection runs every statement handed to it.
SpecLive == Spec /\ WF_vars(Completes)

\* C19: a query that completes never changes the filter, which is therefore
\* the one the user selected last; and once the user takes no more steps,
\* the screen comes to rest, with no query in flight and none issued.
C19_FilterSettles ==
    /\ [][CompleteSelect => filter' = filter]_vars
    /\ <>[][~UserStep]_vars => <>[](queue = <<>>)

\* The second half of C19 alone.
C19_ComesToRest == <>[][~UserStep]_vars => <>[](queue = <<>>)

====
